---- MODULE Spec2Model ----
(***************************************************************************)
(* Circuit -> R1CS -> witness -> proof -> verify pipeline of the zk-SNARK  *)
(* framework (src/src/lib.rs, driven by circuit_main of src/src/main.rs),  *)
(* the transfer methods of Circuit, and the account registry and mempool   *)
(* (src/src/account.rs, src/src/mempool.rs).                               *)
(*                                                                         *)
(* HashMap<K,V> is a TLA+ function whose DOMAIN is the key set; Vec<T> is  *)
(* a sequence; String wire names are TLA+ strings, so format! is string    *)
(* concatenation.  The scalar field Fr of BLS12-381 is represented by the  *)
(* prime field of FieldModulus elements; the i32 literals of the circuits  *)
(* of the pipeline are drawn from a range on which the embedding into that *)
(* field is injective, as it is on all of i32 for the real modulus.        *)
(* Machine integers keep a width: i32 is the two's-complement range of     *)
(* I32Bits bits and u64 is twice as wide.                                  *)
(***************************************************************************)
EXTENDS Integers, Sequences, FiniteSets, TLC

(***************************************************************************)
(* Scalar field                                                            *)
(***************************************************************************)
\* Stand-in for the modulus of ark_bls12_381::Fr: a prime in which 2 and 7
\* are non-zero and -3..3 embed injectively.
FieldModulus == 13

Fr == 0 .. (FieldModulus - 1)

FrZero == 0
FrOne == 1
FrAdd(x, y) == (x + y) % FieldModulus
FrSub(x, y) == (x - y + FieldModulus) % FieldModulus
FrMul(x, y) == (x * y) % FieldModulus
FrNeg(x) == (FieldModulus - x) % FieldModulus
\* Fr::from(u64)
FrFromU64(n) == n % FieldModulus

(***************************************************************************)
(* Machine integers                                                        *)
(***************************************************************************)
\* Stand-in for the 32 bits of i32: the integers of the model checker are
\* themselves 32 bits wide, so 2^31 cannot be written in it.
I32Bits == 8

I32Min == -(2 ^ (I32Bits - 1))
I32Max == (2 ^ (I32Bits - 1)) - 1
I32 == I32Min .. I32Max

\* The i32 a result wraps to without overflow checks (release profile).
WrapI32(n) == ((n - I32Min) % (2 ^ I32Bits)) + I32Min

\* With overflow checks (dev profile) an i32 operation whose result is
\* outside the range panics.
OverflowsI32(n) == n < I32Min \/ n > I32Max

\* `as u64` of an i32: sign extension to twice the width.
AsU64(n) == n % (2 ^ (2 * I32Bits))

\* The u64 a result wraps to without overflow checks.
WrapU64(n) == n % (2 ^ (2 * I32Bits))

\* i32_to_fr without the negation overflow: n >= 0 to F(n), n < 0 to -F(|n|).
i32_to_fr_unbounded(val) ==
    IF val < 0 THEN FrNeg(FrFromU64(-val)) ELSE FrFromU64(val)

\* fn i32_to_fr: the value returned when it returns; `-val` wraps when
\* overflow checks are off.
i32_to_fr(val) ==
    IF val < 0 THEN FrNeg(FrFromU64(AsU64(WrapI32(-val))))
    ELSE FrFromU64(AsU64(val))

\* The negation `-val` of i32_to_fr overflows: a panic under overflow checks.
i32_to_fr_overflows(val) == val < 0 /\ OverflowsI32(-val)

(***************************************************************************)
(* Gates and circuits                                                      *)
(***************************************************************************)
\* enum Gate.  One record shape for all variants; a, b are the operands,
\* c the output wire, val the literal of Const.  Hash(input, output) is
\* a = input, c = output; Const(name, val) is c = name; Eq(a, b, out) is
\* c = out.  Unused fields are "" / 0.  The Option<i32> modulus of
\* Add/Mul/Sub is never read by the code.
Gate(kind, a, b, c, val) ==
    [kind |-> kind, a |-> a, b |-> b, c |-> c, val |-> val]

\* HashMap::insert
MapInsert(m, k, v) == [x \in (DOMAIN m) \cup {k} |-> IF x = k THEN v ELSE m[x]]

EmptyMap == [x \in {} |-> 0]

\* vec![(k1, v1), ...].into_iter().collect::<HashMap<_,_>>(): a later pair
\* with the same key replaces the earlier one.
RECURSIVE CollectFrom(_, _, _)
CollectFrom(pairs, i, m) ==
    IF i > Len(pairs) THEN m
    ELSE CollectFrom(pairs, i + 1, MapInsert(m, pairs[i][1], pairs[i][2]))

Collect(pairs) == CollectFrom(pairs, 1, EmptyMap)

\* struct _R1CSConstraintInternal
Constraint(a, b, c) == [a |-> Collect(a), b |-> Collect(b), c |-> Collect(c)]

\* format!("{}_initial_balance", who)
InitialBalanceName(who) == who \o "_initial_balance"

TransferAmountName == "transfer_amount_public"

\* format!("{}_xor_prod_{}", a, b)
XorProdName(a, b) == a \o "_xor_prod_" \o b

(***************************************************************************)
(* Transfer methods of Circuit                                             *)
(***************************************************************************)
\* Circuit::validate_transfer
validate_transfer(C) ==
    IF C.sender \in DOMAIN C.inputs
    THEN C.inputs[C.sender] >= C.transfer_amount
    ELSE FALSE

\* Circuit::execute_transfer.  The circuit it leaves behind and whether it
\* panicked: `-=` and `+=` on i32 panic on overflow under overflow checks
\* and wrap without them; the debit is written before the credit is computed.
execute_transfer(C, overflow_checks) ==
    IF ~validate_transfer(C) THEN [panicked |-> FALSE, circuit |-> C]
    ELSE LET debited == C.inputs[C.sender] - C.transfer_amount
             C1 == [C EXCEPT !.inputs[C.sender] = WrapI32(debited)]
         IN  IF overflow_checks /\ OverflowsI32(debited)
             THEN [panicked |-> TRUE, circuit |-> C]
             ELSE IF C.receiver \notin DOMAIN C.inputs
             THEN [panicked |-> FALSE, circuit |-> C1]
             ELSE LET credited == C1.inputs[C.receiver] + C.transfer_amount
                  IN  IF overflow_checks /\ OverflowsI32(credited)
                      THEN [panicked |-> TRUE, circuit |-> C1]
                      ELSE [panicked |-> FALSE,
                            circuit |-> [C1 EXCEPT !.inputs[C.receiver] =
                                                        WrapI32(credited)]]

(***************************************************************************)
(* R1CS compiler                                                           *)
(***************************************************************************)
\* get_index that hands out next_r1cs_idx without advancing it.
get_index_no_advance(var, st) ==
    IF var \in DOMAIN st.var_map
    THEN [st EXCEPT !.idx = st.var_map[var]]
    ELSE [st EXCEPT !.idx = st.next,
                    !.var_map = MapInsert(st.var_map, var, st.next)]

\* fn get_index: the compiler state st carries var_map and next_r1cs_idx;
\* the result is the state after the call, with the index in field idx.
get_index(var, st) ==
    IF var \in DOMAIN st.var_map
    THEN [st EXCEPT !.idx = st.var_map[var]]
    ELSE [st EXCEPT !.idx = st.next,
                    !.var_map = MapInsert(st.var_map, var, st.next),
                    !.next = st.next + 1]

Push(st, con) == [st EXCEPT !.constraints = Append(@, con)]

\* One preamble block of to_r1cs_system: a public variable pinned to a literal.
PublicPreamble(st, public_var_name, literal) ==
    LET s0 == [st EXCEPT !.public_input_names = Append(@, public_var_name)]
        s1 == get_index(public_var_name, s0)
    IN  Push(s1, Constraint(<< <<s1.idx, FrOne>> >>,
                            << <<s1.var_map["1"], FrOne>> >>,
                            << <<s1.var_map["1"], i32_to_fr(literal)>> >>))

CompilePreamble(C) ==
    LET st0 == [var_map |-> MapInsert(EmptyMap, "1", 0), next |-> 1, idx |-> 0,
                constraints |-> <<>>, public_input_names |-> <<>>]
        st1 == IF C.sender \in DOMAIN C.inputs
               THEN PublicPreamble(st0, InitialBalanceName(C.sender),
                                   C.inputs[C.sender])
               ELSE st0
        st2 == IF C.receiver \in DOMAIN C.inputs
               THEN PublicPreamble(st1, InitialBalanceName(C.receiver),
                                   C.inputs[C.receiver])
               ELSE st1
    IN  PublicPreamble(st2, TransferAmountName, C.transfer_amount)

\* The arms of `match gate_ref` in to_r1cs_system.
CompileAddSubMulEq(st, g) ==
    LET sa == get_index(g.a, st)
        sb == get_index(g.b, sa)
        sc == get_index(g.c, sb)
        a_idx == sa.idx
        b_idx == sb.idx
        c_idx == sc.idx
        one == sc.var_map["1"]
    IN  CASE g.kind = "Add" ->
               Push(sc, Constraint(<< <<a_idx, FrOne>>, <<b_idx, FrOne>> >>,
                                   << <<one, FrOne>> >>,
                                   << <<c_idx, FrOne>> >>))
          [] g.kind = "Mul" ->
               Push(sc, Constraint(<< <<a_idx, FrOne>> >>,
                                   << <<b_idx, FrOne>> >>,
                                   << <<c_idx, FrOne>> >>))
          [] g.kind = "Sub" ->
               Push(sc, Constraint(<< <<a_idx, FrOne>>, <<b_idx, FrNeg(FrOne)>> >>,
                                   << <<one, FrOne>> >>,
                                   << <<c_idx, FrOne>> >>))
          [] g.kind = "Eq" ->
               Push(Push(sc,
                    Constraint(<< <<a_idx, FrOne>>, <<b_idx, FrNeg(FrOne)>> >>,
                               << <<one, FrOne>> >>,
                               << <<c_idx, FrOne>> >>)),
                    Constraint(<< <<c_idx, FrOne>> >>,
                               << <<c_idx, FrOne>> >>,
                               << <<one, FrZero>> >>))

CompileHash(st, g) ==
    LET si == get_index(g.a, st)
        so == get_index(g.c, si)
    IN  Push(so, Constraint(<< <<si.idx, FrOne>> >>,
                            << <<so.var_map["1"], i32_to_fr(7)>> >>,
                            << <<so.idx, FrOne>> >>))

CompileConst(st, g) ==
    LET s1 == get_index(g.c, st)
    IN  Push(s1, Constraint(<< <<s1.var_map["1"], i32_to_fr(g.val)>> >>,
                            << <<s1.var_map["1"], FrOne>> >>,
                            << <<s1.idx, FrOne>> >>))

CompileXor(st, g) ==
    LET sa == get_index(g.a, st)
        sb == get_index(g.b, sa)
        sab == get_index(XorProdName(g.a, g.b), sb)
        sc == get_index(g.c, sab)
        a_idx == sa.idx
        b_idx == sb.idx
        ab_idx == sab.idx
        c_idx == sc.idx
        one == sc.var_map["1"]
        c1 == Constraint(<< <<a_idx, FrOne>> >>, << <<b_idx, FrOne>> >>,
                         << <<ab_idx, FrOne>> >>)
        c2 == Constraint(<< <<a_idx, FrOne>>, <<b_idx, FrOne>>,
                            <<ab_idx, i32_to_fr(-2)>> >>,
                         << <<one, FrOne>> >>, << <<c_idx, FrOne>> >>)
        c3 == Constraint(<< <<a_idx, FrOne>> >>, << <<a_idx, FrOne>> >>,
                         << <<a_idx, FrOne>> >>)
        c4 == Constraint(<< <<b_idx, FrOne>> >>, << <<b_idx, FrOne>> >>,
                         << <<b_idx, FrOne>> >>)
    IN  Push(Push(Push(Push(sc, c1), c2), c3), c4)

CompileGate(st, g) ==
    CASE g.kind \in {"Add", "Mul", "Sub", "Eq"} -> CompileAddSubMulEq(st, g)
      [] g.kind = "Hash" -> CompileHash(st, g)
      [] g.kind = "Const" -> CompileConst(st, g)
      [] g.kind = "Xor" -> CompileXor(st, g)

RECURSIVE CompileGates(_, _, _)
CompileGates(st, gates, i) ==
    IF i > Len(gates) THEN st
    ELSE CompileGates(CompileGate(st, gates[i]), gates, i + 1)

\* The i32 literals to_r1cs_system hands to i32_to_fr.
CompiledLiterals(C) ==
    {C.inputs[who] : who \in {C.sender, C.receiver} \cap DOMAIN C.inputs}
        \cup {C.transfer_amount, 7, -2}
        \cup {C.gates[i].val : i \in {j \in DOMAIN C.gates : C.gates[j].kind = "Const"}}

\* to_r1cs_system panics under overflow checks when one of them is i32::MIN.
to_r1cs_system_overflows(C) ==
    \E lit \in CompiledLiterals(C) : i32_to_fr_overflows(lit)

\* Circuit::to_r1cs_system -> struct R1CSSystem
to_r1cs_system(C) ==
    LET st == CompileGates(CompilePreamble(C), C.gates, 1)
    IN  [raw_constraints |-> st.constraints,
         var_map |-> st.var_map,
         num_variables |-> st.next,
         num_public_inputs |-> 1 + Len(st.public_input_names),
         public_input_names |-> st.public_input_names]

(***************************************************************************)
(* Witness evaluator                                                       *)
(***************************************************************************)
\* The Err(String) results of compute_witness, by the format string used:
\*   UndefinedWire     "Var {} not found" / "Var {} not found for XOR"
\*   EqualityMismatch  "Equality constraint failed: {} ({:?}) != {} ({:?})"
\*   NonBooleanInput   "XOR input {} is not a bit (0 or 1)"
\*   MissingWitness    "Variable '{}' (index {}) is in R1CS var_map but has
\*                      no computed witness value."
WitnessErr(kind, name, other) == [kind |-> kind, name |-> name, other |-> other]

NoErr == WitnessErr("", "", "")

EvalOk(wires) == [ok |-> TRUE, wires |-> wires, err |-> NoErr]
EvalErr(wires, e) == [ok |-> FALSE, wires |-> wires, err |-> e]

\* for (name, val) in &self.inputs { insert(name, i32_to_fr(val)) }
SeedInputs(C) == [n \in DOMAIN C.inputs |-> i32_to_fr(C.inputs[n])]

\* The wire values before the first gate: inputs, then "1", then the seeded
\* public names, each insert replacing an input of the same name.
SeedWires(C) ==
    LET w0 == MapInsert(SeedInputs(C), "1", FrOne)
        w1 == IF C.sender \in DOMAIN C.inputs
              THEN MapInsert(w0, InitialBalanceName(C.sender),
                             i32_to_fr(C.inputs[C.sender]))
              ELSE w0
        w2 == IF C.receiver \in DOMAIN C.inputs
              THEN MapInsert(w1, InitialBalanceName(C.receiver),
                             i32_to_fr(C.inputs[C.receiver]))
              ELSE w1
    IN  MapInsert(w2, TransferAmountName, i32_to_fr(C.transfer_amount))

IsBit(v) == v = FrZero \/ v = FrOne

\* Arithmetic arms that read an operand without a value as zero instead of
\* returning the error.
EvalArith_reads_missing_as_zero(w, g) ==
    LET a_val == IF g.a \in DOMAIN w THEN w[g.a] ELSE FrZero
        b_val == IF g.b \in DOMAIN w THEN w[g.b] ELSE FrZero
    IN  CASE g.kind = "Add" -> EvalOk(MapInsert(w, g.c, FrAdd(a_val, b_val)))
          [] g.kind = "Mul" -> EvalOk(MapInsert(w, g.c, FrMul(a_val, b_val)))
          [] g.kind = "Sub" -> EvalOk(MapInsert(w, g.c, FrSub(a_val, b_val)))

\* The arms of `match gate_ref` in compute_witness; `?` returns at the first
\* operand that is not in wire_values_by_name.
EvalArith(w, g) ==
    IF g.a \notin DOMAIN w THEN EvalErr(w, WitnessErr("UndefinedWire", g.a, ""))
    ELSE IF g.b \notin DOMAIN w THEN EvalErr(w, WitnessErr("UndefinedWire", g.b, ""))
    ELSE CASE g.kind = "Add" -> EvalOk(MapInsert(w, g.c, FrAdd(w[g.a], w[g.b])))
           [] g.kind = "Mul" -> EvalOk(MapInsert(w, g.c, FrMul(w[g.a], w[g.b])))
           [] g.kind = "Sub" -> EvalOk(MapInsert(w, g.c, FrSub(w[g.a], w[g.b])))

\* An Eq arm that binds the difference instead of rejecting unequal values.
EvalEq_binds_difference(w, g) ==
    IF g.a \notin DOMAIN w THEN EvalErr(w, WitnessErr("UndefinedWire", g.a, ""))
    ELSE IF g.b \notin DOMAIN w THEN EvalErr(w, WitnessErr("UndefinedWire", g.b, ""))
    ELSE EvalOk(MapInsert(w, g.c, FrSub(w[g.a], w[g.b])))

EvalEq(w, g) ==
    IF g.a \notin DOMAIN w THEN EvalErr(w, WitnessErr("UndefinedWire", g.a, ""))
    ELSE IF g.b \notin DOMAIN w THEN EvalErr(w, WitnessErr("UndefinedWire", g.b, ""))
    ELSE IF w[g.a] # w[g.b] THEN EvalErr(w, WitnessErr("EqualityMismatch", g.a, g.b))
    ELSE EvalOk(MapInsert(w, g.c, FrZero))

EvalHash(w, g) ==
    IF g.a \notin DOMAIN w THEN EvalErr(w, WitnessErr("UndefinedWire", g.a, ""))
    ELSE EvalOk(MapInsert(w, g.c, FrMul(w[g.a], i32_to_fr(7))))

EvalConst(w, g) == EvalOk(MapInsert(w, g.c, i32_to_fr(g.val)))

\* A Xor arm that binds c and leaves the product wire without a value.
EvalXor_leaves_product_unbound(w, g) ==
    IF g.a \notin DOMAIN w THEN EvalErr(w, WitnessErr("UndefinedWire", g.a, ""))
    ELSE IF g.b \notin DOMAIN w THEN EvalErr(w, WitnessErr("UndefinedWire", g.b, ""))
    ELSE IF ~IsBit(w[g.a]) THEN EvalErr(w, WitnessErr("NonBooleanInput", g.a, ""))
    ELSE IF ~IsBit(w[g.b]) THEN EvalErr(w, WitnessErr("NonBooleanInput", g.b, ""))
    ELSE LET a_val == w[g.a]
             b_val == w[g.b]
             ab_val == FrMul(a_val, b_val)
             c_val == FrSub(FrAdd(a_val, b_val), FrMul(i32_to_fr(2), ab_val))
         IN  EvalOk(MapInsert(w, g.c, c_val))

\* A Xor arm that checks b before a.
EvalXor_checks_b_first(w, g) ==
    IF g.a \notin DOMAIN w THEN EvalErr(w, WitnessErr("UndefinedWire", g.a, ""))
    ELSE IF g.b \notin DOMAIN w THEN EvalErr(w, WitnessErr("UndefinedWire", g.b, ""))
    ELSE IF ~IsBit(w[g.b]) THEN EvalErr(w, WitnessErr("NonBooleanInput", g.b, ""))
    ELSE IF ~IsBit(w[g.a]) THEN EvalErr(w, WitnessErr("NonBooleanInput", g.a, ""))
    ELSE LET a_val == w[g.a]
             b_val == w[g.b]
             ab_val == FrMul(a_val, b_val)
             w1 == MapInsert(w, XorProdName(g.a, g.b), ab_val)
             c_val == FrSub(FrAdd(a_val, b_val), FrMul(i32_to_fr(2), ab_val))
         IN  EvalOk(MapInsert(w1, g.c, c_val))

EvalXor(w, g) ==
    IF g.a \notin DOMAIN w THEN EvalErr(w, WitnessErr("UndefinedWire", g.a, ""))
    ELSE IF g.b \notin DOMAIN w THEN EvalErr(w, WitnessErr("UndefinedWire", g.b, ""))
    ELSE IF ~IsBit(w[g.a]) THEN EvalErr(w, WitnessErr("NonBooleanInput", g.a, ""))
    ELSE IF ~IsBit(w[g.b]) THEN EvalErr(w, WitnessErr("NonBooleanInput", g.b, ""))
    ELSE LET a_val == w[g.a]
             b_val == w[g.b]
             ab_val == FrMul(a_val, b_val)
             w1 == MapInsert(w, XorProdName(g.a, g.b), ab_val)
             c_val == FrSub(FrAdd(a_val, b_val), FrMul(i32_to_fr(2), ab_val))
         IN  EvalOk(MapInsert(w1, g.c, c_val))

EvalGate(w, g) ==
    CASE g.kind \in {"Add", "Mul", "Sub"} -> EvalArith(w, g)
      [] g.kind = "Eq" -> EvalEq(w, g)
      [] g.kind = "Hash" -> EvalHash(w, g)
      [] g.kind = "Const" -> EvalConst(w, g)
      [] g.kind = "Xor" -> EvalXor(w, g)

\* for gate_ref in &self.gates: the wires after gates i..Len, or the first error.
RECURSIVE EvalGates(_, _, _)
EvalGates(w, gates, i) ==
    IF i > Len(gates) THEN EvalOk(w)
    ELSE LET r == EvalGate(w, gates[i])
         IN  IF r.ok THEN EvalGates(r.wires, gates, i + 1) ELSE r

\* A projection that gives a name outside r1cs_var_map a key of its own
\* instead of dropping it.
ProjectWitness_keeps_unknown(wires, r1cs_var_map) ==
    LET named == (DOMAIN wires) \cap (DOMAIN r1cs_var_map)
        fresh == Cardinality(DOMAIN r1cs_var_map)
        unknown == (DOMAIN wires) \ (DOMAIN r1cs_var_map)
    IN  [idx \in {r1cs_var_map[n] : n \in named}
                    \cup (IF unknown = {} THEN {} ELSE {fresh}) |->
            IF idx = fresh /\ unknown # {}
            THEN wires[CHOOSE n \in unknown : TRUE]
            ELSE wires[CHOOSE n \in named : r1cs_var_map[n] = idx]]

\* witness_by_idx: the projection of the wire values onto the indices of
\* r1cs_var_map; names that are not keys of r1cs_var_map are dropped.
ProjectWitness(wires, r1cs_var_map) ==
    LET named == (DOMAIN wires) \cap (DOMAIN r1cs_var_map)
    IN  [idx \in {r1cs_var_map[n] : n \in named} |->
            wires[CHOOSE n \in named : r1cs_var_map[n] = idx]]

\* The names the final loop over r1cs_var_map can report.
MissingNames(witness_by_idx, r1cs_var_map) ==
    {n \in DOMAIN r1cs_var_map : r1cs_var_map[n] \notin DOMAIN witness_by_idx}

\* Circuit::compute_witness.  The results it can return: the final loop
\* iterates a HashMap, so with several missing names any of them can be the
\* one reported.
compute_witness(C, r1cs_var_map) ==
    LET r == EvalGates(SeedWires(C), C.gates, 1)
        witness_by_idx == ProjectWitness(r.wires, r1cs_var_map)
        missing == MissingNames(witness_by_idx, r1cs_var_map)
    IN  IF ~r.ok THEN {[ok |-> FALSE, err |-> r.err, witness |-> EmptyMap]}
        ELSE IF missing # {}
        THEN {[ok |-> FALSE, err |-> WitnessErr("MissingWitness", n, ""),
               witness |-> EmptyMap] : n \in missing}
        ELSE {[ok |-> TRUE, err |-> NoErr, witness |-> witness_by_idx]}

(***************************************************************************)
(* SNARK driver                                                            *)
(***************************************************************************)
\* Option<HashMap<usize, Fr>>
NoAssignment == [some |-> FALSE, map |-> EmptyMap]
SomeAssignment(w) == [some |-> TRUE, map |-> w]

\* .and_then(|w| w.get(&original_idx).cloned()).unwrap_or_else(|| Fr::zero()):
\* the value bound to an allocated variable; both closures of
\* generate_constraints end in Fr::zero() when the index has no value.
AssignedValue(witness_assignment, original_idx) ==
    IF witness_assignment.some /\ original_idx \in DOMAIN witness_assignment.map
    THEN witness_assignment.map[original_idx]
    ELSE FrZero

\* One host allocation: cs.new_input_variable ("public") or
\* cs.new_witness_variable ("private") for original_idx, bound to val.
Allocation(kind, original_idx, val) ==
    [kind |-> kind, idx |-> original_idx, val |-> val]

\* The adapter state: allocs is the host allocations in order, cs_vars maps
\* an original index to the position in allocs of its host variable.
AllocState(allocs, cs_vars) == [allocs |-> allocs, cs_vars |-> cs_vars]

Allocate(st, kind, original_idx, val) ==
    AllocState(Append(st.allocs, Allocation(kind, original_idx, val)),
               MapInsert(st.cs_vars, original_idx, Len(st.allocs) + 1))

\* for name in &self.r1cs_system.public_input_names
RECURSIVE AllocatePublic(_, _, _, _)
AllocatePublic(st, r1cs, witness_assignment, i) ==
    IF i > Len(r1cs.public_input_names) THEN [ok |-> TRUE, st |-> st]
    ELSE LET name == r1cs.public_input_names[i]
         IN  IF name \notin DOMAIN r1cs.var_map THEN [ok |-> FALSE, st |-> st]
             ELSE LET original_idx == r1cs.var_map[name]
                  IN  AllocatePublic(
                          Allocate(st, "public", original_idx,
                                   AssignedValue(witness_assignment, original_idx)),
                          r1cs, witness_assignment, i + 1)

\* A private loop that allocates only the indices the assignment has a value
\* for when one is given.
RECURSIVE AllocatePrivate_skips_missing(_, _, _, _)
AllocatePrivate_skips_missing(st, r1cs, witness_assignment, original_idx) ==
    IF original_idx >= r1cs.num_variables THEN st
    ELSE AllocatePrivate_skips_missing(
             IF \/ original_idx \in DOMAIN st.cs_vars
                \/ (witness_assignment.some
                      /\ original_idx \notin DOMAIN witness_assignment.map)
             THEN st
             ELSE Allocate(st, "private", original_idx,
                           AssignedValue(witness_assignment, original_idx)),
             r1cs, witness_assignment, original_idx + 1)

\* for original_idx in 0..self.r1cs_system.num_variables
RECURSIVE AllocatePrivate(_, _, _, _)
AllocatePrivate(st, r1cs, witness_assignment, original_idx) ==
    IF original_idx >= r1cs.num_variables THEN st
    ELSE AllocatePrivate(
             IF original_idx \in DOMAIN st.cs_vars THEN st
             ELSE Allocate(st, "private", original_idx,
                           AssignedValue(witness_assignment, original_idx)),
             r1cs, witness_assignment, original_idx + 1)

\* The indices named by the terms of the constraints.
TermIndices(raw_constraints) ==
    UNION {(DOMAIN raw_constraints[i].a) \cup (DOMAIN raw_constraints[i].b)
              \cup (DOMAIN raw_constraints[i].c) : i \in DOMAIN raw_constraints}

\* Groth16CircuitAdapter::generate_constraints.  ok = FALSE is
\* Err(SynthesisError::AssignmentMissing); otherwise the host constraint
\* system: the allocations and the enforced constraints, whose terms reach
\* their host variable through cs_vars.
generate_constraints(r1cs, witness_assignment) ==
    LET failed == [ok |-> FALSE, allocs |-> <<>>, cs_vars |-> EmptyMap,
                   constraints |-> <<>>]
    IN  IF "1" \notin DOMAIN r1cs.var_map THEN failed
        ELSE LET st0 == Allocate(AllocState(<<>>, EmptyMap), "public",
                                 r1cs.var_map["1"], FrOne)
                 pub == AllocatePublic(st0, r1cs, witness_assignment, 1)
             IN  IF ~pub.ok THEN failed
                 ELSE LET st == AllocatePrivate(pub.st, r1cs, witness_assignment, 0)
                      IN  IF ~(TermIndices(r1cs.raw_constraints) \subseteq DOMAIN st.cs_vars)
                          THEN failed
                          ELSE [ok |-> TRUE, allocs |-> st.allocs,
                                cs_vars |-> st.cs_vars,
                                constraints |-> r1cs.raw_constraints]

\* The value A.z of a sparse linear combination under an assignment z.
RECURSIVE LcSum(_, _, _)
LcSum(lc, keys, z) ==
    IF keys = {} THEN FrZero
    ELSE LET k == CHOOSE x \in keys : TRUE
         IN  FrAdd(FrMul(lc[k], z[k]), LcSum(lc, keys \ {k}, z))

LcValue(lc, z) == LcSum(lc, DOMAIN lc, z)

\* (A.z) * (B.z) = (C.z)
ConstraintHolds(con, z) ==
    FrMul(LcValue(con.a, z), LcValue(con.b, z)) = LcValue(con.c, z)

\* The value the host holds for each original index: that of the variable
\* cs_vars maps it to.
HostValues(cs) == [idx \in DOMAIN cs.cs_vars |-> cs.allocs[cs.cs_vars[idx]].val]

\* ConstraintSystem::is_satisfied over the enforced constraints
\* (lc_a += (coeff, cs_vars[original_idx]), ...; cs.enforce_constraint).
IsSatisfied(cs) ==
    \A i \in DOMAIN cs.constraints :
        ConstraintHolds(cs.constraints[i], HostValues(cs))

\* The shape of a host constraint system: what setup fixes in the keys.
Shape(cs) ==
    [publics |-> Cardinality({i \in DOMAIN cs.allocs : cs.allocs[i].kind = "public"}),
     kinds |-> [i \in DOMAIN cs.allocs |-> cs.allocs[i].kind],
     cs_vars |-> cs.cs_vars,
     constraints |-> cs.constraints]

\* The values of the public allocations, in allocation order.
RECURSIVE PublicValues(_, _)
PublicValues(allocs, i) ==
    IF i > Len(allocs) THEN <<>>
    ELSE IF allocs[i].kind = "public"
         THEN <<allocs[i].val>> \o PublicValues(allocs, i + 1)
         ELSE PublicValues(allocs, i + 1)

\* fn setup: Groth16 circuit_specific_setup over the adapter without an
\* assignment.  Both keys are determined by the shape of the synthesized
\* constraint system.
setup(r1cs) ==
    LET cs == generate_constraints(r1cs, NoAssignment)
    IN  IF ~cs.ok THEN [ok |-> FALSE, pk |-> <<>>, vk |-> <<>>]
        ELSE [ok |-> TRUE, pk |-> Shape(cs), vk |-> Shape(cs)]

\* fn prove: Groth16 prove over the adapter with the assignment.  The proof
\* is an opaque value; what the argument system guarantees of it is recorded:
\* the statement it was made for (the public values) and whether it is
\* accepted for that statement, which by completeness and soundness is
\* whether the assignment satisfies the constraint system the key was set up
\* for.
prove(r1cs, pk, witness_by_original_idx) ==
    LET cs == generate_constraints(r1cs, SomeAssignment(witness_by_original_idx))
    IN  IF ~cs.ok THEN [ok |-> FALSE, statement |-> <<>>, accepted |-> FALSE]
        ELSE [ok |-> TRUE,
              statement |-> PublicValues(cs.allocs, 1),
              accepted |-> Shape(cs) = pk /\ IsSatisfied(cs)]

\* fn verify: Ok(bool), or Err when the number of public inputs does not fit
\* the key.
verify(vk, proof, public_inputs_ordered) ==
    IF Len(public_inputs_ordered) # vk.publics
    THEN [ok |-> FALSE, valid |-> FALSE]
    ELSE [ok |-> TRUE,
          valid |-> proof.accepted /\ proof.statement = public_inputs_ordered]

(***************************************************************************)
(* Circuits the parser can hand to the pipeline                            *)
(***************************************************************************)
MaxGates == 2

\* Wire names and literals of the circuit files.  "c" is written by gates
\* and read back by later ones; "a" and "1" are also targets of Const.
InputWires == {"a", "b"}
InputVals == {1, 2}
FirstOperands == {"a", "c"}
SecondOperands == {"a", "b"}
OutputWires == {"c"}
ConstWires == {"1", "a", "c"}
ConstVals == {2}
Senders == {"a"}
Receivers == {"a", "b"}
TransferAmounts == {-1}

GateUniverse ==
    {Gate(k, a, b, c, 0) : k \in {"Add", "Mul", "Sub", "Eq", "Xor"},
                            a \in FirstOperands, b \in SecondOperands,
                            c \in OutputWires}
    \cup {Gate("Hash", a, "", c, 0) : a \in FirstOperands, c \in OutputWires}
    \cup {Gate("Const", "", "", c, v) : c \in ConstWires, v \in ConstVals}

GateSeqs == UNION {[1 .. n -> GateUniverse] : n \in 0 .. MaxGates}

InputMaps == UNION {[S -> InputVals] : S \in SUBSET InputWires}

\* struct Circuit, as parse_circuit builds it (name and outputs are never
\* read by the pipeline).
Circuits ==
    [inputs : InputMaps, gates : GateSeqs, sender : Senders,
     receiver : Receivers, transfer_amount : TransferAmounts]

(***************************************************************************)
(* State                                                                   *)
(***************************************************************************)
\* circuit_main and its locals; pc is the stage about to run, exit_code the
\* exit status of the process once it has ended.
VARIABLES circuit, pc, r1cs, keys, witness, proof, public_inputs, is_valid,
          exit_code

\* A caller of the transfer methods: its Circuit, the Circuit it started
\* with, what validate_transfer returned, the R1CS compiled before and after
\* execute_transfer, and whether the build has overflow checks.
VARIABLES xfer_circuit, xfer_original, xfer_pc, xfer_valid, xfer_before,
          xfer_after, xfer_checks

\* A caller of i32_to_fr: the argument, the build, the value returned.
VARIABLES embed_val, embed_checks, embed_pc, embed_out

\* An AccountSystem shared by threads: its three maps, the thread holding
\* the write lock of accounts and whether that lock is poisoned; per thread
\* its place in create_account and the arguments of that call; the call that
\* completed last with what it returned; the nullifiers add_nullifier has
\* been called for.
VARIABLES accounts, nullifiers, merkle_root, accounts_writer, accounts_poisoned,
          acct_pc, acct_call, acct_last, spent

\* A Mempool shared by threads: its map and max_size, whether its lock is
\* poisoned, the system clock, whether the build has overflow checks; per
\* thread its place in clear_old_transactions and the locals of that call;
\* the call that completed last with what it returned and what the
\* transactions added and not removed since make it return; those
\* transactions.
VARIABLES transactions, max_size, pool_poisoned, now, pool_checks, pool_pc,
          pool_local, pool_last, stored

mainVars ==
    <<circuit, pc, r1cs, keys, witness, proof, public_inputs, is_valid, exit_code>>

xferVars ==
    <<xfer_circuit, xfer_original, xfer_pc, xfer_valid, xfer_before, xfer_after,
      xfer_checks>>

embedVars == <<embed_val, embed_checks, embed_pc, embed_out>>

acctVars ==
    <<accounts, nullifiers, merkle_root, accounts_writer, accounts_poisoned,
      acct_pc, acct_call, acct_last, spent>>

poolVars ==
    <<transactions, max_size, pool_poisoned, now, pool_checks, pool_pc,
      pool_local, pool_last, stored>>

vars == <<mainVars, xferVars, embedVars, acctVars, poolVars>>

outsideMain == <<xferVars, embedVars, acctVars, poolVars>>
outsideXfer == <<mainVars, embedVars, acctVars, poolVars>>
outsideEmbed == <<mainVars, xferVars, acctVars, poolVars>>
outsideAcct == <<mainVars, xferVars, embedVars, poolVars>>
outsidePool == <<mainVars, xferVars, embedVars, acctVars>>

NotYet == <<>>

\* The exit status of the process: none while it runs, 0 once main has
\* returned, 101 once a panic has unwound out of main.
NoExit == -1
ExitSuccess == 0
ExitPanic == 101

\* The parts of the state a specification does not use stay as they are here.
MainIdle ==
    /\ circuit = NotYet
    /\ pc = "idle"
    /\ r1cs = NotYet
    /\ keys = NotYet
    /\ witness = NotYet
    /\ proof = NotYet
    /\ public_inputs = NotYet
    /\ is_valid = FALSE
    /\ exit_code = NoExit

XferIdle ==
    /\ xfer_circuit = NotYet
    /\ xfer_original = NotYet
    /\ xfer_pc = "idle"
    /\ xfer_valid = FALSE
    /\ xfer_before = NotYet
    /\ xfer_after = NotYet
    /\ xfer_checks = FALSE

EmbedIdle ==
    /\ embed_val = 0
    /\ embed_checks = FALSE
    /\ embed_pc = "idle"
    /\ embed_out = FrZero

AcctIdle ==
    /\ accounts = NotYet
    /\ nullifiers = NotYet
    /\ merkle_root = FrZero
    /\ accounts_writer = "none"
    /\ accounts_poisoned = FALSE
    /\ acct_pc = NotYet
    /\ acct_call = NotYet
    /\ acct_last = NotYet
    /\ spent = {}

PoolIdle ==
    /\ transactions = NotYet
    /\ max_size = 0
    /\ pool_poisoned = FALSE
    /\ now = 0
    /\ pool_checks = FALSE
    /\ pool_pc = NotYet
    /\ pool_local = NotYet
    /\ pool_last = NotYet
    /\ stored = NotYet

(***************************************************************************)
(* circuit_main                                                            *)
(***************************************************************************)
Init ==
    /\ circuit = NotYet
    /\ pc = "args"
    /\ r1cs = NotYet
    /\ keys = NotYet
    /\ witness = NotYet
    /\ proof = NotYet
    /\ public_inputs = NotYet
    /\ is_valid = FALSE
    /\ exit_code = NoExit
    /\ XferIdle
    /\ EmbedIdle
    /\ AcctIdle
    /\ PoolIdle

\* if args.len() < 2 { eprintln!(usage); return; }
Args ==
    /\ pc = "args"
    /\ \E has_path \in BOOLEAN :
          IF has_path
          THEN pc' = "parse" /\ exit_code' = exit_code
          ELSE pc' = "returned" /\ exit_code' = ExitSuccess
    /\ UNCHANGED <<circuit, r1cs, keys, witness, proof, public_inputs, is_valid>>
    /\ UNCHANGED outsideMain

\* let circuit = parse_circuit(path).expect(..): the parser panics on a file
\* it cannot read or a line it does not know, and returns a Circuit otherwise.
Parse ==
    /\ pc = "parse"
    /\ \/ /\ circuit' \in Circuits
          /\ pc' = "to_r1cs"
          /\ exit_code' = exit_code
       \/ /\ circuit' = circuit
          /\ pc' = "panicked"
          /\ exit_code' = ExitPanic
    /\ UNCHANGED <<r1cs, keys, witness, proof, public_inputs, is_valid>>
    /\ UNCHANGED outsideMain

\* let r1cs = circuit.to_r1cs_system();
ToR1CS ==
    /\ pc = "to_r1cs"
    /\ r1cs' = to_r1cs_system(circuit)
    /\ pc' = "setup"
    /\ UNCHANGED <<circuit, keys, witness, proof, public_inputs, is_valid, exit_code>>
    /\ UNCHANGED outsideMain

\* let (pk, vk) = setup(&r1cs).expect(..);
Setup ==
    /\ pc = "setup"
    /\ keys' = setup(r1cs)
    /\ pc' = IF keys'.ok THEN "witness" ELSE "panicked"
    /\ exit_code' = IF keys'.ok THEN exit_code ELSE ExitPanic
    /\ UNCHANGED <<circuit, r1cs, witness, proof, public_inputs, is_valid>>
    /\ UNCHANGED outsideMain

\* let witness_by_idx = circuit.compute_witness(&r1cs.var_map).expect(..);
ComputeWitness ==
    /\ pc = "witness"
    /\ witness' \in compute_witness(circuit, r1cs.var_map)
    /\ pc' = IF witness'.ok THEN "prove" ELSE "panicked"
    /\ exit_code' = IF witness'.ok THEN exit_code ELSE ExitPanic
    /\ UNCHANGED <<circuit, r1cs, keys, proof, public_inputs, is_valid>>
    /\ UNCHANGED outsideMain

\* let proof = prove(&r1cs, &pk, witness_by_idx.clone()).expect(..);
Prove ==
    /\ pc = "prove"
    /\ proof' = prove(r1cs, keys.pk, witness.witness)
    /\ pc' = IF proof'.ok THEN "verify" ELSE "panicked"
    /\ exit_code' = IF proof'.ok THEN exit_code ELSE ExitPanic
    /\ UNCHANGED <<circuit, r1cs, keys, witness, public_inputs, is_valid>>
    /\ UNCHANGED outsideMain

\* public_inputs_for_verification: Fr::one(), then the witness value of each
\* public input name; a name or a value that is missing panics.
RECURSIVE PublicInputsFrom(_, _, _)
PublicInputsFrom(sys, witness_by_idx, i) ==
    IF i > Len(sys.public_input_names) THEN <<>>
    ELSE <<witness_by_idx[sys.var_map[sys.public_input_names[i]]]>>
            \o PublicInputsFrom(sys, witness_by_idx, i + 1)

\* The same vector with the values of the names taken last name first.
PublicInputsForVerification_last_name_first(sys, witness_by_idx) ==
    LET vals == PublicInputsFrom(sys, witness_by_idx, 1)
    IN  <<FrOne>> \o [i \in 1 .. Len(vals) |-> vals[Len(vals) + 1 - i]]

PublicInputsForVerification(sys, witness_by_idx) ==
    <<FrOne>> \o PublicInputsFrom(sys, witness_by_idx, 1)

PublicInputsDefined(sys, witness_by_idx) ==
    \A i \in DOMAIN sys.public_input_names :
        /\ sys.public_input_names[i] \in DOMAIN sys.var_map
        /\ sys.var_map[sys.public_input_names[i]] \in DOMAIN witness_by_idx

\* The rest of circuit_main: build the public inputs, check their number,
\* verify(&vk, &proof, &public_inputs).expect(..), print the result and
\* return, whichever result was printed.
Verify ==
    /\ pc = "verify"
    /\ IF /\ PublicInputsDefined(r1cs, witness.witness)
          /\ Len(PublicInputsForVerification(r1cs, witness.witness))
                = r1cs.num_public_inputs
       THEN /\ public_inputs' = PublicInputsForVerification(r1cs, witness.witness)
            /\ LET res == verify(keys.vk, proof, public_inputs')
               IN  /\ is_valid' = (res.ok /\ res.valid)
                   /\ pc' = IF res.ok THEN "done" ELSE "panicked"
                   /\ exit_code' = IF res.ok THEN ExitSuccess ELSE ExitPanic
       ELSE /\ pc' = "panicked"
            /\ exit_code' = ExitPanic
            /\ UNCHANGED <<public_inputs, is_valid>>
    /\ UNCHANGED <<circuit, r1cs, keys, witness, proof>>
    /\ UNCHANGED outsideMain

Next == Args \/ Parse \/ ToR1CS \/ Setup \/ ComputeWitness \/ Prove \/ Verify

Spec == Init /\ [][Next]_vars

(***************************************************************************)
(* A library caller that hands prove an assignment of its own              *)
(***************************************************************************)
MaxDriverGates == 1

DriverGateSeqs == UNION {[1 .. n -> GateUniverse] : n \in 0 .. MaxDriverGates}

DriverCircuits ==
    [inputs : InputMaps, gates : DriverGateSeqs, sender : Senders,
     receiver : Receivers, transfer_amount : TransferAmounts]

\* The assignments the caller can hand to prove: the witness compute_witness
\* returns for the circuit, or F(1) at every index, whole or with the value
\* of one index left out.
DriverAssignments(C, sys) ==
    LET indices == 0 .. (sys.num_variables - 1)
        whole == {res.witness : res \in {x \in compute_witness(C, sys.var_map) : x.ok}}
                    \cup {[idx \in indices |-> FrOne]}
    IN  {[idx \in (DOMAIN w) \ left_out |-> w[idx]] :
            w \in whole, left_out \in {{}} \cup {{idx} : idx \in indices}}

DriverInit ==
    /\ circuit \in DriverCircuits
    /\ pc = "to_r1cs"
    /\ r1cs = NotYet
    /\ keys = NotYet
    /\ witness = NotYet
    /\ proof = NotYet
    /\ public_inputs = NotYet
    /\ is_valid = FALSE
    /\ exit_code = NoExit
    /\ XferIdle
    /\ EmbedIdle
    /\ AcctIdle
    /\ PoolIdle

\* Instead of calling compute_witness the caller brings the assignment.
HandAssignment ==
    /\ pc = "witness"
    /\ \E w \in DriverAssignments(circuit, r1cs) :
          witness' = [ok |-> TRUE, err |-> NoErr, witness |-> w]
    /\ pc' = "prove"
    /\ UNCHANGED <<circuit, r1cs, keys, proof, public_inputs, is_valid, exit_code>>
    /\ UNCHANGED outsideMain

\* to_r1cs_system, setup and prove as circuit_main calls them.
DriverNext == ToR1CS \/ Setup \/ HandAssignment \/ Prove

DriverSpec == DriverInit /\ [][DriverNext]_vars

(***************************************************************************)
(* Circuit files that name wires like the product wire of a Xor gate       *)
(***************************************************************************)
MaxXorGates == 2

\* parse_circuit takes any token as a wire name, so a file can declare or
\* write a wire that format!("{}_xor_prod_{}", a, b) also produces.
XorInputWires == {"a", "b", "a_xor_prod_b", "b_xor_prod_b"}
XorBits == {0, 1}

XorGateUniverse ==
    {Gate("Xor", a, b, "c", 0) : a \in {"a", "a_xor_prod_b"},
                                    b \in {"b", "b_xor_prod_b"}}
    \cup {Gate("Const", "", "", c, 1) : c \in {"a_xor_prod_b", "c"}}

XorGateSeqs == UNION {[1 .. n -> XorGateUniverse] : n \in 0 .. MaxXorGates}

XorInputMaps == UNION {[S -> XorBits] : S \in SUBSET XorInputWires}

XorCircuits ==
    [inputs : XorInputMaps, gates : XorGateSeqs, sender : {"a"},
     receiver : {"b"}, transfer_amount : {1}]

XorInit ==
    /\ circuit \in XorCircuits
    /\ pc = "to_r1cs"
    /\ r1cs = NotYet
    /\ keys = NotYet
    /\ witness = NotYet
    /\ proof = NotYet
    /\ public_inputs = NotYet
    /\ is_valid = FALSE
    /\ exit_code = NoExit
    /\ XferIdle
    /\ EmbedIdle
    /\ AcctIdle
    /\ PoolIdle

\* to_r1cs_system, setup and compute_witness as circuit_main calls them.
XorNext == ToR1CS \/ Setup \/ ComputeWitness

XorSpec == XorInit /\ [][XorNext]_vars

(***************************************************************************)
(* A caller of the transfer methods                                        *)
(***************************************************************************)
\* Balances and amounts of the circuits handed to the transfer methods: the
\* ends of the i32 range, a negative value, zero and small positive ones.
XferBalances == {I32Min, -1, 0, 2, I32Max}
XferAmounts == {I32Min, -1, 0, 1, I32Max}

XferInputMaps == UNION {[S -> XferBalances] : S \in SUBSET InputWires}

XferGateSeqs == {<<>>, <<Gate("Add", "a", "b", "c", 0)>>}

XferCircuits ==
    [inputs : XferInputMaps, gates : XferGateSeqs, sender : Senders,
     receiver : Receivers, transfer_amount : XferAmounts]

XferInit ==
    /\ xfer_circuit \in XferCircuits
    /\ xfer_original = xfer_circuit
    /\ xfer_pc = "compile_before"
    /\ xfer_valid = FALSE
    /\ xfer_before = NotYet
    /\ xfer_after = NotYet
    /\ xfer_checks \in BOOLEAN
    /\ MainIdle
    /\ EmbedIdle
    /\ AcctIdle
    /\ PoolIdle

\* let before = circuit.to_r1cs_system();
XferCompileBefore ==
    /\ xfer_pc = "compile_before"
    /\ IF xfer_checks /\ to_r1cs_system_overflows(xfer_circuit)
       THEN xfer_pc' = "panicked" /\ xfer_before' = xfer_before
       ELSE xfer_pc' = "validate" /\ xfer_before' = to_r1cs_system(xfer_circuit)
    /\ UNCHANGED <<xfer_circuit, xfer_original, xfer_valid, xfer_after, xfer_checks>>
    /\ UNCHANGED outsideXfer

\* let valid = circuit.validate_transfer();
XferValidate ==
    /\ xfer_pc = "validate"
    /\ xfer_valid' = validate_transfer(xfer_circuit)
    /\ xfer_pc' = "execute"
    /\ UNCHANGED <<xfer_circuit, xfer_original, xfer_before, xfer_after, xfer_checks>>
    /\ UNCHANGED outsideXfer

\* circuit.execute_transfer();
XferExecute ==
    /\ xfer_pc = "execute"
    /\ LET res == execute_transfer(xfer_circuit, xfer_checks)
       IN  /\ xfer_circuit' = res.circuit
           /\ xfer_pc' = IF res.panicked THEN "execute_panicked" ELSE "compile_after"
    /\ UNCHANGED <<xfer_original, xfer_valid, xfer_before, xfer_after, xfer_checks>>
    /\ UNCHANGED outsideXfer

\* let after = circuit.to_r1cs_system();
XferCompileAfter ==
    /\ xfer_pc = "compile_after"
    /\ IF xfer_checks /\ to_r1cs_system_overflows(xfer_circuit)
       THEN xfer_pc' = "panicked" /\ xfer_after' = xfer_after
       ELSE xfer_pc' = "done" /\ xfer_after' = to_r1cs_system(xfer_circuit)
    /\ UNCHANGED <<xfer_circuit, xfer_original, xfer_valid, xfer_before, xfer_checks>>
    /\ UNCHANGED outsideXfer

XferNext == XferCompileBefore \/ XferValidate \/ XferExecute \/ XferCompileAfter

TransferSpec == XferInit /\ [][XferNext]_vars

(***************************************************************************)
(* A caller of i32_to_fr                                                   *)
(***************************************************************************)
EmbedInit ==
    /\ embed_val \in I32
    /\ embed_checks \in BOOLEAN
    /\ embed_pc = "call"
    /\ embed_out = FrZero
    /\ MainIdle
    /\ XferIdle
    /\ AcctIdle
    /\ PoolIdle

\* let out = i32_to_fr(val);
EmbedCall ==
    /\ embed_pc = "call"
    /\ IF embed_checks /\ i32_to_fr_overflows(embed_val)
       THEN embed_pc' = "panicked" /\ embed_out' = embed_out
       ELSE embed_pc' = "returned" /\ embed_out' = i32_to_fr(embed_val)
    /\ UNCHANGED <<embed_val, embed_checks>>
    /\ UNCHANGED outsideEmbed

EmbedNext == EmbedCall

EmbedSpec == EmbedInit /\ [][EmbedNext]_vars

(***************************************************************************)
(* Account registry (src/src/account.rs)                                   *)
(***************************************************************************)
\* Each map of AccountSystem sits behind its own RwLock.  A guard that is a
\* temporary of one statement (get_account, verify_nullifier, add_nullifier,
\* get_merkle_root) makes that statement one step, taken when the lock is
\* free of writers.  create_account keeps the write guard of accounts until
\* it returns, so its steps are separate and accounts_writer names the
\* holder.  A guard dropped by a panic poisons its lock, and .unwrap() on a
\* poisoned lock panics.
Threads == {"t1", "t2"}

\* The field elements threads use as commitments and as nullifiers, and the
\* u64 balances.
AcctCommitments == {3, 5}
AcctNullifiers == {4, 6}
AcctBalances == {0, 100}

\* Account { balance: initial_balance, nonce: 0, commitment }
Account(commitment, initial_balance) ==
    [balance |-> initial_balance, nonce |-> 0, commitment |-> commitment]

\* Option<Account>
NoAccount == [some |-> FALSE, account |-> Account(FrZero, 0)]
SomeAccount(a) == [some |-> TRUE, account |-> a]

\* get_account: self.accounts.read().unwrap().get(commitment).cloned()
get_account(accts, commitment) ==
    IF commitment \in DOMAIN accts THEN SomeAccount(accts[commitment]) ELSE NoAccount

\* verify_nullifier: !self.nullifiers.read().unwrap().contains_key(nullifier)
verify_nullifier(nulls, nullifier) == nullifier \notin DOMAIN nulls

\* An add_nullifier that flips the entry: a second call removes it again.
add_nullifier_toggles(nulls, nullifier) ==
    IF nullifier \in DOMAIN nulls
    THEN [n \in (DOMAIN nulls) \ {nullifier} |-> nulls[n]]
    ELSE MapInsert(nulls, nullifier, TRUE)

\* add_nullifier: self.nullifiers.write().unwrap().insert(nullifier, true)
add_nullifier(nulls, nullifier) == MapInsert(nulls, nullifier, TRUE)

\* A completed call: the thread, the method, its argument and what it
\* returned.
AcctDone(t, op, arg, result) ==
    [thread |-> t, op |-> op, arg |-> arg, result |-> result]

NoCall == [op |-> "", commitment |-> FrZero, initial_balance |-> 0]

\* AccountSystem::new(), no call made yet.
AcctInit ==
    /\ accounts = EmptyMap
    /\ nullifiers = EmptyMap
    /\ merkle_root = FrZero
    /\ accounts_writer = "none"
    /\ accounts_poisoned = FALSE
    /\ acct_pc = [t \in Threads |-> "idle"]
    /\ acct_call = [t \in Threads |-> NoCall]
    /\ acct_last = AcctDone("", "new", FrZero, FALSE)
    /\ spent = {}
    /\ MainIdle
    /\ XferIdle
    /\ EmbedIdle
    /\ PoolIdle

\* create_account, line 31: let mut accounts = self.accounts.write().unwrap();
\* waits while another thread holds the write lock.
CreateAccountLock(t, commitment, initial_balance) ==
    /\ acct_pc[t] = "idle"
    /\ accounts_writer = "none"
    /\ IF accounts_poisoned
       THEN /\ acct_pc' = [acct_pc EXCEPT ![t] = "panicked"]
            /\ UNCHANGED <<accounts_writer, acct_call>>
       ELSE /\ acct_pc' = [acct_pc EXCEPT ![t] = "create_locked"]
            /\ accounts_writer' = t
            /\ acct_call' = [acct_call EXCEPT ![t] =
                    [op |-> "create_account", commitment |-> commitment,
                     initial_balance |-> initial_balance]]
    /\ UNCHANGED <<accounts, nullifiers, merkle_root, accounts_poisoned, acct_last, spent>>
    /\ UNCHANGED outsideAcct

\* create_account, lines 32-42: Err for a registered commitment (the guard
\* is dropped on return), else the insert and the call of
\* update_merkle_root with the write guard still alive.
CreateAccountInsert(t) ==
    /\ acct_pc[t] = "create_locked"
    /\ LET call == acct_call[t]
       IN  IF call.commitment \in DOMAIN accounts
           THEN /\ accounts_writer' = "none"
                /\ acct_pc' = [acct_pc EXCEPT ![t] = "idle"]
                /\ acct_call' = [acct_call EXCEPT ![t] = NoCall]
                /\ acct_last' = AcctDone(t, "create_account", call.commitment, FALSE)
                /\ UNCHANGED accounts
           ELSE /\ accounts' = MapInsert(accounts, call.commitment,
                                         Account(call.commitment, call.initial_balance))
                /\ acct_pc' = [acct_pc EXCEPT ![t] = "update_merkle_root"]
                /\ UNCHANGED <<accounts_writer, acct_call, acct_last>>
    /\ UNCHANGED <<nullifiers, merkle_root, accounts_poisoned, spent>>
    /\ UNCHANGED outsideAcct

\* update_merkle_root, line 63: self.accounts.read() is granted only when no
\* thread holds the write lock.  The caller, create_account, holds it, and
\* std's RwLock is not reentrant: the thread waits forever (no step) or, as
\* the documentation of read() allows, panics.  The panic drops the write
\* guard of create_account, which poisons the lock.  Lines 64-78 run only
\* once the read lock is granted.
UpdateMerkleRootPanic(t) ==
    /\ acct_pc[t] = "update_merkle_root"
    /\ accounts_writer = t
    /\ acct_pc' = [acct_pc EXCEPT ![t] = "panicked"]
    /\ accounts_writer' = "none"
    /\ accounts_poisoned' = TRUE
    /\ UNCHANGED <<accounts, nullifiers, merkle_root, acct_call, acct_last, spent>>
    /\ UNCHANGED outsideAcct

\* get_account(&commitment)
GetAccount(t, commitment) ==
    /\ acct_pc[t] = "idle"
    /\ accounts_writer = "none"
    /\ IF accounts_poisoned
       THEN acct_pc' = [acct_pc EXCEPT ![t] = "panicked"] /\ UNCHANGED acct_last
       ELSE /\ acct_last' = AcctDone(t, "get_account", commitment,
                                     get_account(accounts, commitment))
            /\ UNCHANGED acct_pc
    /\ UNCHANGED <<accounts, nullifiers, merkle_root, accounts_writer,
                   accounts_poisoned, acct_call, spent>>
    /\ UNCHANGED outsideAcct

\* verify_nullifier(&nullifier)
VerifyNullifier(t, nullifier) ==
    /\ acct_pc[t] = "idle"
    /\ acct_last' = AcctDone(t, "verify_nullifier", nullifier,
                             verify_nullifier(nullifiers, nullifier))
    /\ UNCHANGED <<accounts, nullifiers, merkle_root, accounts_writer,
                   accounts_poisoned, acct_pc, acct_call, spent>>
    /\ UNCHANGED outsideAcct

\* add_nullifier(nullifier)
AddNullifier(t, nullifier) ==
    /\ acct_pc[t] = "idle"
    /\ nullifiers' = add_nullifier(nullifiers, nullifier)
    /\ spent' = spent \cup {nullifier}
    /\ acct_last' = AcctDone(t, "add_nullifier", nullifier, TRUE)
    /\ UNCHANGED <<accounts, merkle_root, accounts_writer, accounts_poisoned,
                   acct_pc, acct_call>>
    /\ UNCHANGED outsideAcct

\* get_merkle_root()
GetMerkleRoot(t) ==
    /\ acct_pc[t] = "idle"
    /\ acct_last' = AcctDone(t, "get_merkle_root", merkle_root, TRUE)
    /\ UNCHANGED <<accounts, nullifiers, merkle_root, accounts_writer,
                   accounts_poisoned, acct_pc, acct_call, spent>>
    /\ UNCHANGED outsideAcct

AcctNext ==
    \E t \in Threads :
        \/ \E c \in AcctCommitments, b \in AcctBalances : CreateAccountLock(t, c, b)
        \/ CreateAccountInsert(t)
        \/ UpdateMerkleRootPanic(t)
        \/ \E c \in AcctCommitments : GetAccount(t, c)
        \/ \E n \in AcctNullifiers : VerifyNullifier(t, n)
        \/ \E n \in AcctNullifiers : AddNullifier(t, n)
        \/ GetMerkleRoot(t)

AccountSpec == AcctInit /\ [][AcctNext]_vars

(***************************************************************************)
(* Mempool (src/src/mempool.rs)                                            *)
(***************************************************************************)
\* Every method takes the lock of transactions once, for one statement or
\* until it returns, so it is one step; clear_old_transactions reads the
\* clock before it takes the lock, which is a step of its own.  A panic
\* under the write guard poisons the lock, and .unwrap() on a poisoned lock
\* panics.
MaxTime == 1
MaxPoolSize == 2

\* The nullifiers transactions are keyed by, what stands for the rest of a
\* transaction (old_root, new_root, commitment, proof), the timestamps
\* callers put in, and the max_age_seconds they clear with.
PoolNullifiers == {4, 6}
PoolPayloads == {"p", "q"}
PoolTimestamps == 0 .. MaxTime
PoolMaxAges == {0, 1}

\* struct Transaction
Transaction(nullifier, payload, timestamp) ==
    [nullifier |-> nullifier, payload |-> payload, timestamp |-> timestamp]

PoolTransactions ==
    {Transaction(n, p, ts) : n \in PoolNullifiers, p \in PoolPayloads,
                             ts \in PoolTimestamps}

\* Option<Transaction>
NoTransaction == [some |-> FALSE, tx |-> Transaction(FrZero, "", 0)]
SomeTransaction(tx) == [some |-> TRUE, tx |-> tx]

\* HashMap::get(..).cloned() and the value HashMap::remove returns
Lookup(txs, nullifier) ==
    IF nullifier \in DOMAIN txs THEN SomeTransaction(txs[nullifier]) ELSE NoTransaction

\* HashMap::remove: the map without the key
Without(txs, gone) == [n \in (DOMAIN txs) \ gone |-> txs[n]]

\* The closure of retain: current_time - tx.timestamp <= max_age_seconds in
\* u64, the subtraction wrapping when overflow checks are off.
retain_keeps(tx, current_time, max_age_seconds) ==
    WrapU64(current_time - tx.timestamp) <= max_age_seconds

\* The subtraction of the closure underflows: a panic under overflow checks.
retain_overflows(tx, current_time) == tx.timestamp > current_time

\* A completed call: the thread, the method, the nullifier it was about,
\* whether it panicked, whether it returned Ok, the Option<Transaction> it
\* returned (for add_transaction the transaction added) and the one that
\* the transactions added and not removed since make it return.
PoolDone(t, op, nullifier, panicked, ok, result, expected) ==
    [thread |-> t, op |-> op, nullifier |-> nullifier, panicked |-> panicked,
     ok |-> ok, result |-> result, expected |-> expected]

NoLocals == [current_time |-> 0, max_age_seconds |-> 0]

\* Mempool::new(max_size), no call made yet.
PoolInit ==
    /\ transactions = EmptyMap
    /\ max_size \in 1 .. MaxPoolSize
    /\ pool_poisoned = FALSE
    /\ now = 0
    /\ pool_checks \in BOOLEAN
    /\ pool_pc = [t \in Threads |-> "idle"]
    /\ pool_local = [t \in Threads |-> NoLocals]
    /\ pool_last = PoolDone("", "new", FrZero, FALSE, TRUE, NoTransaction, NoTransaction)
    /\ stored = EmptyMap
    /\ MainIdle
    /\ XferIdle
    /\ EmbedIdle
    /\ AcctIdle

\* A call that finds the lock poisoned: .unwrap() panics.
PoolPanic(t, op, nullifier) ==
    /\ pool_pc' = [pool_pc EXCEPT ![t] = "panicked"]
    /\ pool_last' = PoolDone(t, op, nullifier, TRUE, FALSE, NoTransaction,
                             Lookup(stored, nullifier))

\* add_transaction without the check of the size against max_size.
AddTransaction_without_size_check(t, tx) ==
    /\ pool_pc[t] = "idle"
    /\ IF pool_poisoned
       THEN /\ PoolPanic(t, "add_transaction", tx.nullifier)
            /\ UNCHANGED <<transactions, stored>>
       ELSE IF tx.nullifier \in DOMAIN transactions
       THEN /\ pool_last' = PoolDone(t, "add_transaction", tx.nullifier, FALSE, FALSE,
                                     SomeTransaction(tx), Lookup(stored, tx.nullifier))
            /\ UNCHANGED <<transactions, stored, pool_pc>>
       ELSE /\ transactions' = MapInsert(transactions, tx.nullifier, tx)
            /\ stored' = MapInsert(stored, tx.nullifier, tx)
            /\ pool_last' = PoolDone(t, "add_transaction", tx.nullifier, FALSE, TRUE,
                                     SomeTransaction(tx), SomeTransaction(tx))
            /\ UNCHANGED pool_pc
    /\ UNCHANGED <<max_size, pool_poisoned, now, pool_checks, pool_local>>
    /\ UNCHANGED outsidePool

\* add_transaction(tx)
AddTransaction(t, tx) ==
    /\ pool_pc[t] = "idle"
    /\ IF pool_poisoned
       THEN /\ PoolPanic(t, "add_transaction", tx.nullifier)
            /\ UNCHANGED <<transactions, stored>>
       ELSE IF \/ Cardinality(DOMAIN transactions) >= max_size
               \/ tx.nullifier \in DOMAIN transactions
       THEN /\ pool_last' = PoolDone(t, "add_transaction", tx.nullifier, FALSE, FALSE,
                                     SomeTransaction(tx), Lookup(stored, tx.nullifier))
            /\ UNCHANGED <<transactions, stored, pool_pc>>
       ELSE /\ transactions' = MapInsert(transactions, tx.nullifier, tx)
            /\ stored' = MapInsert(stored, tx.nullifier, tx)
            /\ pool_last' = PoolDone(t, "add_transaction", tx.nullifier, FALSE, TRUE,
                                     SomeTransaction(tx), SomeTransaction(tx))
            /\ UNCHANGED pool_pc
    /\ UNCHANGED <<max_size, pool_poisoned, now, pool_checks, pool_local>>
    /\ UNCHANGED outsidePool

\* remove_transaction(&nullifier)
RemoveTransaction(t, nullifier) ==
    /\ pool_pc[t] = "idle"
    /\ IF pool_poisoned
       THEN /\ PoolPanic(t, "remove_transaction", nullifier)
            /\ UNCHANGED <<transactions, stored>>
       ELSE /\ transactions' = Without(transactions, {nullifier})
            /\ stored' = Without(stored, {nullifier})
            /\ pool_last' = PoolDone(t, "remove_transaction", nullifier, FALSE, TRUE,
                                     Lookup(transactions, nullifier),
                                     Lookup(stored, nullifier))
            /\ UNCHANGED pool_pc
    /\ UNCHANGED <<max_size, pool_poisoned, now, pool_checks, pool_local>>
    /\ UNCHANGED outsidePool

\* get_transaction(&nullifier)
GetTransaction(t, nullifier) ==
    /\ pool_pc[t] = "idle"
    /\ IF pool_poisoned
       THEN PoolPanic(t, "get_transaction", nullifier)
       ELSE /\ pool_last' = PoolDone(t, "get_transaction", nullifier, FALSE, TRUE,
                                     Lookup(transactions, nullifier),
                                     Lookup(stored, nullifier))
            /\ UNCHANGED pool_pc
    /\ UNCHANGED <<transactions, stored, max_size, pool_poisoned, now, pool_checks,
                   pool_local>>
    /\ UNCHANGED outsidePool

\* get_all_transactions(): the values, in the order of the HashMap (not
\* recorded).
GetAllTransactions(t) ==
    /\ pool_pc[t] = "idle"
    /\ IF pool_poisoned
       THEN PoolPanic(t, "get_all_transactions", FrZero)
       ELSE /\ pool_last' = PoolDone(t, "get_all_transactions", FrZero, FALSE, TRUE,
                                     NoTransaction, NoTransaction)
            /\ UNCHANGED pool_pc
    /\ UNCHANGED <<transactions, stored, max_size, pool_poisoned, now, pool_checks,
                   pool_local>>
    /\ UNCHANGED outsidePool

\* clear_old_transactions, lines 58-61: let current_time = SystemTime::now()..
ClearOldReadClock(t, max_age_seconds) ==
    /\ pool_pc[t] = "idle"
    /\ pool_pc' = [pool_pc EXCEPT ![t] = "clear_old_retain"]
    /\ pool_local' = [pool_local EXCEPT ![t] =
            [current_time |-> now, max_age_seconds |-> max_age_seconds]]
    /\ UNCHANGED <<transactions, stored, max_size, pool_poisoned, now, pool_checks,
                   pool_last>>
    /\ UNCHANGED outsidePool

\* clear_old_transactions, lines 63-64: the write lock and retain.  Under
\* overflow checks the closure panics at a transaction stamped later than
\* current_time; retain visits the map in no particular order, so any of
\* the transactions it would drop may be gone by then, and the guard
\* dropped by the panic poisons the lock.
ClearOldRetain(t) ==
    /\ pool_pc[t] = "clear_old_retain"
    /\ LET current_time == pool_local[t].current_time
           max_age_seconds == pool_local[t].max_age_seconds
           later == {n \in DOMAIN transactions :
                        retain_overflows(transactions[n], current_time)}
           dropped == {n \in DOMAIN transactions :
                        ~retain_keeps(transactions[n], current_time, max_age_seconds)}
       IN  IF pool_poisoned
           THEN /\ PoolPanic(t, "clear_old_transactions", FrZero)
                /\ UNCHANGED <<transactions, stored, pool_poisoned>>
           ELSE IF pool_checks /\ later # {}
           THEN /\ \E gone \in SUBSET (dropped \ later) :
                      /\ transactions' = Without(transactions, gone)
                      /\ stored' = Without(stored, gone)
                /\ pool_poisoned' = TRUE
                /\ PoolPanic(t, "clear_old_transactions", FrZero)
           ELSE /\ transactions' = Without(transactions, dropped)
                /\ stored' = Without(stored, dropped)
                /\ pool_pc' = [pool_pc EXCEPT ![t] = "idle"]
                /\ pool_last' = PoolDone(t, "clear_old_transactions", FrZero, FALSE,
                                         TRUE, NoTransaction, NoTransaction)
                /\ UNCHANGED pool_poisoned
    /\ pool_local' = [pool_local EXCEPT ![t] = NoLocals]
    /\ UNCHANGED <<max_size, now, pool_checks>>
    /\ UNCHANGED outsidePool

\* The system clock advances.
PoolTick ==
    /\ now < MaxTime
    /\ now' = now + 1
    /\ UNCHANGED <<transactions, stored, max_size, pool_poisoned, pool_checks,
                   pool_pc, pool_local, pool_last>>
    /\ UNCHANGED outsidePool

PoolNext ==
    \/ PoolTick
    \/ \E t \in Threads :
          \/ \E tx \in PoolTransactions : AddTransaction(t, tx)
          \/ \E n \in PoolNullifiers : RemoveTransaction(t, n)
          \/ \E n \in PoolNullifiers : GetTransaction(t, n)
          \/ GetAllTransactions(t)
          \/ \E age \in PoolMaxAges : ClearOldReadClock(t, age)
          \/ ClearOldRetain(t)

MempoolSpec == PoolInit /\ [][PoolNext]_vars

(***************************************************************************)
(* Properties                                                              *)
(***************************************************************************)
\* to_r1cs_system has just returned r1cs (no later step changes it).
Compiled == pc = "setup"
\* compute_witness has just returned witness (no later step changes it).
WitnessReturned == pc \in {"prove", "panicked"} /\ witness # NotYet
\* compute_witness has returned Ok, now or earlier.
WitnessOk == witness # NotYet /\ witness.ok
\* compute_witness has just returned Ok.
WitnessJustOk == pc = "prove"

\* C1: whenever compute_witness returns Ok(z) for the var_map of the
\* circuit's own R1CS, every emitted constraint (A,B,C) has
\* (A.z)*(B.z) = (C.z).
C1_WitnessSatisfiesConstraints ==
    WitnessOk =>
        \A i \in DOMAIN r1cs.raw_constraints :
            ConstraintHolds(r1cs.raw_constraints[i], witness.witness)

\* The number of constraints to_r1cs_system emits for a gate, per the table
\* of per-gate schemas.
ConstraintsOfKind(kind) ==
    CASE kind = "Eq" -> 2
      [] kind = "Xor" -> 4
      [] OTHER -> 1

RECURSIVE ConstraintsBefore(_, _)
ConstraintsBefore(gates, i) ==
    IF i <= 1 THEN 0
    ELSE ConstraintsBefore(gates, i - 1) + ConstraintsOfKind(gates[i - 1].kind)

\* The positions in raw_constraints of the constraints of gate i: the
\* preamble emits one constraint per public input name.
GateConstraintRange(sys, gates, i) ==
    LET first == Len(sys.public_input_names) + ConstraintsBefore(gates, i) + 1
    IN  first .. (first + ConstraintsOfKind(gates[i].kind) - 1)

\* The relation a gate is stated to assert, read on an assignment z through
\* var_map; for Xor it includes the product wire p = a*b the schema binds.
GateRelation(g, z, var_map) ==
    LET va == z[var_map[g.a]]
        vb == z[var_map[g.b]]
        vc == z[var_map[g.c]]
    IN  CASE g.kind = "Add" -> FrAdd(va, vb) = vc
          [] g.kind = "Sub" -> FrSub(va, vb) = vc
          [] g.kind = "Mul" -> FrMul(va, vb) = vc
          [] g.kind = "Const" -> vc = i32_to_fr(g.val)
          [] g.kind = "Hash" -> vc = FrMul(i32_to_fr(7), va)
          [] g.kind = "Eq" -> va = vb /\ vc = FrSub(va, vb)
          [] g.kind = "Xor" ->
               /\ IsBit(va) /\ IsBit(vb)
               /\ z[var_map[XorProdName(g.a, g.b)]] = FrMul(va, vb)
               /\ vc = FrSub(FrAdd(va, vb), FrMul(i32_to_fr(2), FrMul(va, vb)))

\* The indices a gate names.
GateIndices(g, var_map) ==
    {var_map[n] : n \in ({g.a, g.b, g.c} \ {""})
                        \cup (IF g.kind = "Xor" THEN {XorProdName(g.a, g.b)} ELSE {})}

\* The assignments that hold F(1) at index 0 and range over the field on the
\* indices the gate names (the other indices do not occur in its constraints).
GateAssignments(g, sys) ==
    LET free == GateIndices(g, sys.var_map) \ {0}
    IN  {[idx \in 0 .. (sys.num_variables - 1) |->
            IF idx = 0 THEN FrOne ELSE IF idx \in free THEN zz[idx] ELSE FrZero]
         : zz \in [free -> Fr]}

\* C2: for each gate, the constraints emitted for it hold under an
\* assignment z exactly when the gate's stated relation holds on z, for all
\* choices of wire names, two operands being the same wire included.
C2_GateConstraintsMeanRelation ==
    Compiled =>
        \A i \in DOMAIN circuit.gates :
            \A z \in GateAssignments(circuit.gates[i], r1cs) :
                (\A j \in GateConstraintRange(r1cs, circuit.gates, i) :
                    ConstraintHolds(r1cs.raw_constraints[j], z))
                <=> GateRelation(circuit.gates[i], z, r1cs.var_map)

\* C3: for every circuit whose witness computation succeeds, setup, prove
\* with the computed witness and verify with [F(1)] followed by the witness
\* values of public_input_names end in verify returning true.
C3_EndToEndAccepts ==
    (WitnessOk /\ pc \notin {"prove", "verify"}) => (pc = "done" /\ is_valid)

\* The indices var_map assigns.
VarIndices(sys) == {sys.var_map[n] : n \in DOMAIN sys.var_map}

\* C5: in every R1CSSystem returned by to_r1cs_system, var_map["1"] = 0,
\* var_map is injective onto {0, ..., num_variables-1}, every term index of
\* every constraint lies in that range, and
\* num_public_inputs = 1 + len(public_input_names).
C5_IndexWellFormed ==
    Compiled =>
        /\ "1" \in DOMAIN r1cs.var_map
        /\ r1cs.var_map["1"] = 0
        /\ \A m, n \in DOMAIN r1cs.var_map :
              r1cs.var_map[m] = r1cs.var_map[n] => m = n
        /\ VarIndices(r1cs) = 0 .. (r1cs.num_variables - 1)
        /\ TermIndices(r1cs.raw_constraints) \subseteq 0 .. (r1cs.num_variables - 1)
        /\ r1cs.num_public_inputs = 1 + Len(r1cs.public_input_names)

\* A compiled two-gate circuit with a Xor gate, both balances public and a
\* wire first seen in the second gate.
C5_Witness ==
    /\ Compiled
    /\ Len(circuit.gates) = 2
    /\ circuit.gates[1].kind = "Xor"
    /\ circuit.gates[2].kind = "Add"
    /\ Len(r1cs.public_input_names) = 3
    /\ r1cs.num_variables = 8

\* C6: every assignment compute_witness returns as Ok holds F(1) at index 0,
\* whatever gates the circuit contains.
C6_IndexZeroIsOne ==
    WitnessOk => witness.witness[0] = FrOne

\* C7: when compute_witness returns Ok(w), the domain of w is exactly
\* {0, ..., num_variables-1}.
C7_WitnessDomain ==
    WitnessJustOk => DOMAIN witness.witness = 0 .. (r1cs.num_variables - 1)

\* Ok is returned although a declared input is not a key of var_map, so its
\* value was dropped by the projection.
C7_Witness ==
    /\ WitnessJustOk
    /\ Len(circuit.gates) = 2
    /\ "b" \in DOMAIN circuit.inputs
    /\ "b" \notin DOMAIN r1cs.var_map
    /\ DOMAIN witness.witness = 0 .. (r1cs.num_variables - 1)

\* The kind and original index of each allocation, in order.
AllocationOrder(cs) ==
    [i \in DOMAIN cs.allocs |-> <<cs.allocs[i].kind, cs.allocs[i].idx>>]

\* The indices in lo .. hi outside `taken`, ascending, each as a private
\* allocation.
RECURSIVE PrivateOrder(_, _, _)
PrivateOrder(lo, hi, taken) ==
    IF lo > hi THEN <<>>
    ELSE (IF lo \in taken THEN <<>> ELSE << <<"private", lo>> >>)
            \o PrivateOrder(lo + 1, hi, taken)

\* The stated order: the constant one for index 0, one public input per
\* entry of public_input_names, then the remaining indices ascending.
StatedOrder(sys) ==
    LET publics == [i \in DOMAIN sys.public_input_names |->
                        <<"public", sys.var_map[sys.public_input_names[i]]>>]
        taken == {0} \cup {publics[i][2] : i \in DOMAIN publics}
    IN  << <<"public", 0>> >> \o publics
            \o PrivateOrder(0, sys.num_variables - 1, taken)

\* Assignments prove can be handed for a system of n variables: no value,
\* every value, only the lower half of the indices, only the upper half.
PartialAssignments(n) ==
    {[idx \in S |-> FrOne] :
        S \in {{}, 0 .. (n - 1), 0 .. ((n \div 2) - 1), (n \div 2) .. (n - 1)}}

\* Right after compilation the partial assignments; once compute_witness has
\* returned Ok, the assignment circuit_main hands to prove.
ProveAssignments ==
    IF WitnessJustOk THEN {witness.witness}
    ELSE PartialAssignments(r1cs.num_variables)

\* C8: generate_constraints allocates the same sequence of host variables
\* (kind and original index) without an assignment (setup) and with any
\* assignment (prove); that sequence is the constant one, then the public
\* input names in order, then the remaining indices ascending, and every
\* public allocation precedes every private one.
C8_SameAllocationOrder ==
    (Compiled \/ WitnessJustOk) =>
        LET atSetup == generate_constraints(r1cs, NoAssignment)
        IN  /\ atSetup.ok
            /\ AllocationOrder(atSetup) = StatedOrder(r1cs)
            /\ \A w \in ProveAssignments :
                  LET atProve == generate_constraints(r1cs, SomeAssignment(w))
                  IN  atProve.ok /\ AllocationOrder(atProve) = AllocationOrder(atSetup)
            /\ \A i, j \in DOMAIN atSetup.allocs :
                  (atSetup.allocs[i].kind = "public"
                      /\ atSetup.allocs[j].kind = "private") => i < j

\* setup and prove have both run the adapter on a system with three public
\* input names and private variables.
C8_Witness ==
    /\ pc = "verify"
    /\ proof.ok
    /\ keys.ok
    /\ Len(r1cs.public_input_names) = 3
    /\ r1cs.num_variables >= 7
    /\ keys.pk.publics = 4

\* The wire values when gate i is reached, or the error of an earlier gate.
BeforeGate(C, i) == EvalGates(SeedWires(C), SubSeq(C.gates, 1, i - 1), 1)

\* Gate i is reached with both operands defined.
ReachedWithOperands(C, i) ==
    /\ BeforeGate(C, i).ok
    /\ C.gates[i].a \in DOMAIN BeforeGate(C, i).wires
    /\ C.gates[i].b \in DOMAIN BeforeGate(C, i).wires

\* C9 as stated, read in the claim's favour (an earlier gate may fail
\* first): a circuit containing Eq(a,b,_) with inputs[a] # inputs[b] makes
\* compute_witness return the equality-mismatch error and never Ok.
C9_EqInputsMismatchFails ==
    WitnessReturned =>
        \A i \in DOMAIN circuit.gates :
            LET g == circuit.gates[i]
            IN  (/\ g.kind = "Eq"
                 /\ g.a \in DOMAIN circuit.inputs
                 /\ g.b \in DOMAIN circuit.inputs
                 /\ circuit.inputs[g.a] # circuit.inputs[g.b])
                => /\ ~witness.ok
                   /\ BeforeGate(circuit, i).ok
                        => witness.err = WitnessErr("EqualityMismatch", g.a, g.b)

\* C9 amended: when compute_witness reaches a gate Eq(a,b,_) (every earlier
\* gate processed without error) with both wires defined and their current
\* values different, it returns the equality-mismatch error naming a and b,
\* not Ok.
C9_EqValuesMismatchFails ==
    WitnessReturned =>
        \A i \in DOMAIN circuit.gates :
            LET g == circuit.gates[i]
            IN  (/\ g.kind = "Eq"
                 /\ ReachedWithOperands(circuit, i)
                 /\ BeforeGate(circuit, i).wires[g.a]
                        # BeforeGate(circuit, i).wires[g.b])
                => /\ ~witness.ok
                   /\ witness.err = WitnessErr("EqualityMismatch", g.a, g.b)

\* An Eq gate reached as second gate with different values, one of them
\* written by the first gate; compute_witness has returned.
C9_Witness ==
    /\ WitnessReturned
    /\ Len(circuit.gates) = 2
    /\ circuit.gates[1].kind = "Add"
    /\ circuit.gates[2].kind = "Eq"
    /\ circuit.gates[2].a = "c"
    /\ ReachedWithOperands(circuit, 2)
    /\ BeforeGate(circuit, 2).wires["c"] # BeforeGate(circuit, 2).wires[circuit.gates[2].b]
    /\ witness.err.kind = "EqualityMismatch"

\* The operand of a reached Xor gate the claim calls offending: a if its
\* value is not a bit, else b.
XorOffender(C, i) ==
    LET g == C.gates[i]
        w == BeforeGate(C, i).wires
    IN  IF g.a \in DOMAIN w /\ ~IsBit(w[g.a]) THEN g.a
        ELSE IF g.a \in DOMAIN w /\ g.b \in DOMAIN w /\ ~IsBit(w[g.b]) THEN g.b
        ELSE ""

\* C10 as stated, read in the claim's favour (the gate is reached): a
\* circuit containing Xor(a,b,_) where the value of a or of b is neither
\* F(0) nor F(1) makes compute_witness fail with the non-boolean-input error
\* naming the offending wire, a before b, and never return Ok.
C10_XorNonBooleanFails ==
    WitnessReturned =>
        \A i \in DOMAIN circuit.gates :
            (/\ circuit.gates[i].kind = "Xor"
             /\ BeforeGate(circuit, i).ok
             /\ XorOffender(circuit, i) # "")
            => /\ ~witness.ok
               /\ witness.err = WitnessErr("NonBooleanInput", XorOffender(circuit, i), "")

\* C10 amended: when compute_witness reaches a gate Xor(a,b,_) with both
\* wires defined and the value of a or of b neither F(0) nor F(1), it fails
\* with the non-boolean-input error naming the offending wire, a before b,
\* and does not return Ok.
C10_XorNonBooleanDefinedFails ==
    WitnessReturned =>
        \A i \in DOMAIN circuit.gates :
            (/\ circuit.gates[i].kind = "Xor"
             /\ ReachedWithOperands(circuit, i)
             /\ XorOffender(circuit, i) # "")
            => /\ ~witness.ok
               /\ witness.err = WitnessErr("NonBooleanInput", XorOffender(circuit, i), "")

\* A Xor gate reached as second gate whose first operand is a bit and whose
\* second is not: the error names b.
C10_Witness ==
    /\ WitnessReturned
    /\ Len(circuit.gates) = 2
    /\ circuit.gates[2].kind = "Xor"
    /\ ReachedWithOperands(circuit, 2)
    /\ circuit.gates[2].a # circuit.gates[2].b
    /\ XorOffender(circuit, 2) = circuit.gates[2].b
    /\ witness.err = WitnessErr("NonBooleanInput", circuit.gates[2].b, "")

\* The operands a gate reads, in the order it reads them.
OperandsRead(g) ==
    CASE g.kind = "Const" -> <<>>
      [] g.kind = "Hash" -> <<g.a>>
      [] OTHER -> <<g.a, g.b>>

\* The wires a gate writes.
WiresWritten(g) ==
    {g.c} \cup (IF g.kind = "Xor" THEN {XorProdName(g.a, g.b)} ELSE {})

\* The names seeded before the first gate besides the declared inputs.
SeededNames(C) ==
    {"1", TransferAmountName}
        \cup {InitialBalanceName(who) : who \in {C.sender, C.receiver} \cap DOMAIN C.inputs}

\* The wires that are defined when gate i is reached: declared inputs,
\* seeded names and the outputs of gates 1 .. i-1.
DefinedBefore(C, i) ==
    (DOMAIN C.inputs) \cup SeededNames(C)
        \cup UNION {WiresWritten(C.gates[j]) : j \in 1 .. (i - 1)}

\* The first operand gate i reads that is not defined, or "" if there is none.
FirstUndefined(C, i) ==
    LET ops == OperandsRead(C.gates[i])
        und == {k \in DOMAIN ops : ops[k] \notin DefinedBefore(C, i)}
    IN  IF und = {} THEN ""
        ELSE ops[CHOOSE k \in und : \A m \in und : k <= m]

\* C11: compute_witness processes the gates in declaration order and, as
\* soon as a gate is reached that reads an operand which is neither a
\* declared input, a seeded name nor the output of an earlier gate, fails
\* with the undefined-wire error naming that operand; a wire written only by
\* that gate or a later one counts as undefined.
C11_UndefinedWireFails ==
    WitnessReturned =>
        \A i \in DOMAIN circuit.gates :
            (BeforeGate(circuit, i).ok /\ FirstUndefined(circuit, i) # "")
            => /\ ~witness.ok
               /\ witness.err = WitnessErr("UndefinedWire", FirstUndefined(circuit, i), "")

\* The first gate reads "c", which only gates write (the first one itself
\* and a Const after it), and its other operand is a declared input:
\* compute_witness has returned the undefined-wire error for "c".
C11_Witness ==
    /\ WitnessReturned
    /\ Len(circuit.gates) = 2
    /\ circuit.gates[1].kind = "Mul"
    /\ circuit.gates[1].a = "c"
    /\ circuit.gates[1].b \in DOMAIN circuit.inputs
    /\ circuit.gates[2].kind = "Const"
    /\ circuit.gates[2].c = "c"
    /\ witness.err = WitnessErr("UndefinedWire", "c", "")

\* C12: execute_transfer has no effect on R1CS compilation: the R1CSSystem
\* to_r1cs_system returns after execute_transfer equals the one it returned
\* before the call.
C12_TransferLeavesR1CS ==
    xfer_pc = "done" => xfer_after = xfer_before

\* The inputs after a valid transfer as stated: inputs[sender] decreased by
\* transfer_amount, then inputs[receiver] increased by it.
XferExpectedInputs(C) ==
    LET debited == [C.inputs EXCEPT ![C.sender] = @ - C.transfer_amount]
    IN  [debited EXCEPT ![C.receiver] = @ + C.transfer_amount]

\* execute_transfer has been called: it returned or panicked.
XferExecuted == xfer_pc \in {"compile_after", "execute_panicked"}

\* C13: validate_transfer returns true iff sender is a key of inputs and
\* inputs[sender] >= transfer_amount; execute_transfer, when that is true,
\* decreases inputs[sender] and increases inputs[receiver] by
\* transfer_amount, and otherwise leaves inputs unchanged; every other field
\* and every other input is unchanged.
C13_TransferContract ==
    XferExecuted =>
        LET C == xfer_original
            valid == /\ C.sender \in DOMAIN C.inputs
                     /\ C.inputs[C.sender] >= C.transfer_amount
        IN  /\ xfer_valid = valid
            /\ xfer_pc # "execute_panicked"
            /\ valid => /\ C.receiver \in DOMAIN C.inputs
                        /\ xfer_circuit.inputs = XferExpectedInputs(C)
            /\ ~valid => xfer_circuit.inputs = C.inputs
            /\ xfer_circuit = [C EXCEPT !.inputs = xfer_circuit.inputs]

\* C14: i32_to_fr is total over all of i32, maps n >= 0 to F(n) and n < 0
\* to -F(|n|), the least i32 included, and satisfies
\* i32_to_fr(-n) = -i32_to_fr(n).
C14_EmbeddingTotalAndOdd ==
    embed_pc # "call" =>
        /\ embed_pc = "returned"
        /\ embed_out = i32_to_fr_unbounded(embed_val)
        /\ (-embed_val) \in I32 => i32_to_fr(-embed_val) = FrNeg(embed_out)

\* prove has been called and has returned.
ProveReturned == proof # NotYet

\* C15: prove called with an assignment that lacks a value for some index
\* in {0, ..., num_variables-1} returns a SynthesisError and no proof.
C15_ProveRejectsIncomplete ==
    (ProveReturned
        /\ ~((0 .. (r1cs.num_variables - 1)) \subseteq DOMAIN witness.witness))
    => ~proof.ok

\* Each stage has run only after the one before it.
StagesInOrder ==
    /\ r1cs # NotYet => circuit # NotYet
    /\ keys # NotYet => r1cs # NotYet
    /\ witness # NotYet => keys # NotYet
    /\ proof # NotYet => witness # NotYet
    /\ pc = "done" => proof # NotYet

\* C16: the stages run in the order parse, R1CS compilation, setup, witness
\* computation, prove, verify, and once the process has ended its exit code
\* is 0 exactly when the pipeline ended in a successful verification: a
\* missing argument, a failed stage or a verification result of false give
\* a non-zero exit code.
C16_ExitCodeReflectsVerification ==
    /\ StagesInOrder
    /\ exit_code # NoExit => (exit_code = ExitSuccess <=> (pc = "done" /\ is_valid))

\* Thread t is inside create_account, at the accounts.read() of
\* update_merkle_root, while its own write guard of accounts is alive: the
\* read lock cannot be granted before the write guard is dropped, and the
\* guard is dropped only after update_merkle_root has returned.
SelfBlocked(t) ==
    acct_pc[t] = "update_merkle_root" /\ accounts_writer = t

\* C17: create_account called with a commitment that is not registered
\* terminates and returns Ok(()): no thread is ever stuck in it on a lock
\* of the registry that the thread itself holds, and none panics in it.
C17_CreateAccountCompletes ==
    \A t \in Threads :
        /\ ~SelfBlocked(t)
        /\ ~(acct_pc[t] = "panicked" /\ acct_call[t].op = "create_account")

\* C19: verify_nullifier(n) returns true for a nullifier add_nullifier was
\* never called for, and false once add_nullifier(n) has been called, in
\* every later state and whatever the threads do in between: a spent
\* nullifier stays in the map.
C19_SpentStaysSpent ==
    /\ spent \subseteq DOMAIN nullifiers
    /\ acct_last.op = "verify_nullifier"
          => acct_last.result = (acct_last.arg \notin spent)

\* verify_nullifier has just returned false to t1 for a nullifier added
\* earlier, while the other nullifier is still unspent and t2 is stuck in
\* create_account.
C19_Witness ==
    /\ acct_last.op = "verify_nullifier"
    /\ acct_last.thread = "t1"
    /\ acct_last.arg = 4
    /\ acct_last.result = FALSE
    /\ spent = {4}
    /\ SelfBlocked("t2")

\* C18: after add_transaction(tx) has returned Ok the map holds tx under
\* tx.nullifier; get_transaction returns the transaction added under the
\* nullifier and not removed since, or None if there is none;
\* remove_transaction returns the same and leaves the nullifier without a
\* transaction.
C18_RoundTrip ==
    /\ (pool_last.op = "add_transaction" /\ pool_last.ok)
          => Lookup(transactions, pool_last.nullifier) = pool_last.result
    /\ pool_last.op \in {"get_transaction", "remove_transaction"}
          => /\ ~pool_last.panicked
             /\ pool_last.result = pool_last.expected
    /\ (pool_last.op = "remove_transaction" /\ ~pool_last.panicked)
          => pool_last.nullifier \notin DOMAIN transactions

\* The values generate_constraints binds to the public-input variables it
\* allocates when prove runs it over the witness, in allocation order.
BoundDuringProve ==
    PublicValues(generate_constraints(r1cs, SomeAssignment(witness.witness)).allocs, 1)

\* C20: the public-input vector circuit_main passes to verify (F(1), then
\* witness[var_map[name]] for each name of public_input_names in order) has
\* num_public_inputs elements and equals, element for element, the values
\* bound in allocation order to the public-input variables that
\* generate_constraints allocates during prove with the same witness.
C20_PublicInputsMatchAllocation ==
    public_inputs # NotYet
        => /\ Len(public_inputs) = r1cs.num_public_inputs
           /\ Len(public_inputs) = Len(r1cs.public_input_names) + 1
           /\ public_inputs[1] = FrOne
           /\ \A i \in DOMAIN r1cs.public_input_names :
                  public_inputs[i + 1]
                      = witness.witness[r1cs.var_map[r1cs.public_input_names[i]]]
           /\ public_inputs = BoundDuringProve
           /\ public_inputs = proof.statement

\* verify was handed a vector whose sender balance, receiver balance and
\* transfer amount are three different values, so that a vector in any other
\* order is a different vector.
C20_Witness ==
    /\ pc = "done"
    /\ is_valid
    /\ Len(public_inputs) = 4
    /\ Cardinality({public_inputs[i] : i \in 2 .. 4}) = 3

\* The positions in the allocations of a host constraint system that are
\* bound to an original index.
AllocationsOf(cs, idx) == {i \in DOMAIN cs.allocs : cs.allocs[i].idx = idx}

AllocationsOfKind(cs, kind) == {i \in DOMAIN cs.allocs : cs.allocs[i].kind = kind}

\* C21: for every R1CSSystem produced by to_r1cs_system, generate_constraints
\* binds each index of {0, ..., num_variables-1} to exactly one host
\* variable: num_public_inputs public-input variables and
\* num_variables - num_public_inputs private-witness variables are allocated,
\* num_variables in total, and no index is allocated twice or under both
\* kinds.
C21_EachIndexOneHostVariable ==
    Compiled =>
        LET cs == generate_constraints(r1cs, NoAssignment)
        IN  /\ cs.ok
            /\ Len(cs.allocs) = r1cs.num_variables
            /\ Cardinality(AllocationsOfKind(cs, "public")) = r1cs.num_public_inputs
            /\ Cardinality(AllocationsOfKind(cs, "private"))
                  = r1cs.num_variables - r1cs.num_public_inputs
            /\ \A idx \in 0 .. (r1cs.num_variables - 1) :
                  Cardinality(AllocationsOf(cs, idx)) = 1

\* The wires a circuit names: its declared inputs and the operands and
\* outputs of its gates.
NamedWires(C) ==
    (DOMAIN C.inputs)
        \cup UNION {{C.gates[i].c} \cup {OperandsRead(C.gates[i])[k] :
                                           k \in DOMAIN OperandsRead(C.gates[i])} :
                     i \in DOMAIN C.gates}

XorGatesOf(C) == {i \in DOMAIN C.gates : C.gates[i].kind = "Xor"}

\* The last Xor gate of the circuit with the product wire of gate i.
LastXorNaming(C, i) ==
    LET same == {j \in XorGatesOf(C) :
                    XorProdName(C.gates[j].a, C.gates[j].b)
                        = XorProdName(C.gates[i].a, C.gates[i].b)}
    IN  CHOOSE j \in same : \A m \in same : m <= j

\* C22: the product wire "{a}_xor_prod_{b}" that to_r1cs_system and
\* compute_witness use for Xor(a,b,c) is fresh: it is none of the wires the
\* circuit's inputs and gates name, no Xor gate with another operand pair
\* has the same product wire, and so the value compute_witness returns for
\* it is a*b as the last gate with that product wire read a and b.
C22_XorProductWireFresh ==
    WitnessReturned =>
        \A i \in XorGatesOf(circuit) :
            LET g == circuit.gates[i]
                prod == XorProdName(g.a, g.b)
                last == LastXorNaming(circuit, i)
            IN  /\ prod \notin NamedWires(circuit)
                /\ \A j \in XorGatesOf(circuit) :
                      <<circuit.gates[j].a, circuit.gates[j].b>> # <<g.a, g.b>>
                          => XorProdName(circuit.gates[j].a, circuit.gates[j].b) # prod
                /\ witness.ok
                      => witness.witness[r1cs.var_map[prod]]
                            = FrMul(BeforeGate(circuit, last).wires[circuit.gates[last].a],
                                    BeforeGate(circuit, last).wires[circuit.gates[last].b])

\* The errors compute_witness raises while it processes a gate.
GateErrorKinds == {"UndefinedWire", "NonBooleanInput", "EqualityMismatch"}

\* C23: when compute_witness is called with the var_map of the same
\* circuit's to_r1cs_system, the final missing-witness check never fires:
\* every error it returns is an undefined-wire, non-boolean-input or
\* equality-mismatch error raised while a gate is processed, and when all
\* gates are processed every name of var_map has a value and the result is
\* Ok.
C23_MissingWitnessNeverFires ==
    WitnessReturned =>
        LET r == EvalGates(SeedWires(circuit), circuit.gates, 1)
        IN  /\ witness.err.kind # "MissingWitness"
            /\ ~witness.ok => /\ ~r.ok
                              /\ witness.err = r.err
                              /\ witness.err.kind \in GateErrorKinds
            /\ r.ok => /\ witness.ok
                       /\ DOMAIN r1cs.var_map \subseteq DOMAIN r.wires
                       /\ MissingNames(ProjectWitness(r.wires, r1cs.var_map),
                                       r1cs.var_map) = {}

\* compute_witness has returned Ok for a circuit whose var_map holds names
\* that only the compiler and the gates introduce: the public names, a gate
\* output and the product wire of a Xor gate.
C23_Witness ==
    /\ WitnessReturned
    /\ witness.ok
    /\ Len(circuit.gates) = 2
    /\ circuit.gates[2].kind = "Xor"
    /\ XorProdName(circuit.gates[2].a, circuit.gates[2].b) \in DOMAIN r1cs.var_map
    /\ "c" \in DOMAIN r1cs.var_map
    /\ TransferAmountName \in DOMAIN r1cs.var_map
    /\ (DOMAIN r1cs.var_map) \ (DOMAIN circuit.inputs) # {}

\* The pool holds at most max_size transactions, each under its own
\* nullifier.
PoolWithinBounds ==
    /\ Cardinality(DOMAIN transactions) <= max_size
    /\ \A n \in DOMAIN transactions : transactions[n].nullifier = n

\* A step in which add_transaction returns Err, or panics at the poisoned
\* lock, leaves the map as it was.
AddErrLeavesPool ==
    (pool_last' # pool_last /\ pool_last'.op = "add_transaction" /\ ~pool_last'.ok)
        => transactions' = transactions

\* C24: under any interleaving of add_transaction, remove_transaction,
\* get_transaction, get_all_transactions and clear_old_transactions calls of
\* several threads, the mempool never holds more than max_size transactions,
\* every stored transaction is keyed by its own nullifier, and an
\* add_transaction that returns Err (pool full or nullifier present) leaves
\* the pool unchanged.
C24_PoolBoundedAndKeyed == [](PoolWithinBounds) /\ [][AddErrLeavesPool]_vars

\* add_transaction has returned Err to one thread because the pool is full
\* (its nullifier is not stored), while the other thread is inside
\* clear_old_transactions between reading the clock and taking the lock.
C24_Witness ==
    /\ pool_last.op = "add_transaction"
    /\ ~pool_last.ok
    /\ ~pool_last.panicked
    /\ pool_last.thread = "t2"
    /\ pool_last.nullifier \notin DOMAIN transactions
    /\ Cardinality(DOMAIN transactions) = max_size
    /\ pool_pc["t1"] = "clear_old_retain"

\* The transactions of txs whose age at current_time, current_time minus
\* timestamp as unsigned 64-bit seconds, is at most max_age_seconds.
KeptByAge(txs, current_time, max_age_seconds) ==
    LET young == {n \in DOMAIN txs :
                    (current_time - txs[n].timestamp) % (2 ^ (2 * I32Bits))
                        <= max_age_seconds}
    IN  [n \in young |-> txs[n]]

\* Thread t leaves clear_old_transactions in this step.
ClearOldEnds(t) == pool_pc[t] = "clear_old_retain" /\ pool_pc'[t] # "clear_old_retain"

\* C25: clear_old_transactions(max_age_seconds) keeps exactly the
\* transactions whose age (current time minus timestamp, as unsigned 64-bit
\* seconds) is at most max_age_seconds and removes all others, whatever the
\* stored timestamps, one later than the current time included, and it
\* always terminates normally.
C25_ClearOldKeepsByAge ==
    [][\A t \in Threads :
          ClearOldEnds(t)
              => /\ pool_pc'[t] = "idle"
                 /\ ~pool_last'.panicked
                 /\ transactions' = KeptByAge(transactions, pool_local[t].current_time,
                                              pool_local[t].max_age_seconds)]_vars

====
